---------------------------- MODULE Spec2Model ----------------------------
(***************************************************************************)
(* PolyForest generator (streamlit_files/InTreeG.py).                      *)
(*                                                                         *)
(* Lengths are fixed-point integers in twentieths of a unit (0.5 is 10,    *)
(* 0.1 is 2).  A mesh is a record of a vertex list (<<x, y, z>>), a face   *)
(* list (<<i, j, k>>, 0-based indices into the vertex list, as in          *)
(* trimesh) and one RGBA colour per face.  The primitives of               *)
(* trimesh.creation have their vertices rounded to the nearest twentieth.  *)
(*                                                                         *)
(* The global numpy generator is a state variable: every draw reads the    *)
(* state as a raw variate u in 0..RngResolution-1 (u / RngResolution is    *)
(* the uniform value in [0,1)) and advances it.                            *)
(***************************************************************************)
EXTENDS Integers, Sequences, FiniteSets, TLC

VARIABLES pc, n_trees, plot_size, rng, positions, i, meshes, forest_mesh,
          fig, tape, rnds, kinds, parts, args, result

vars == <<pc, n_trees, plot_size, rng, positions, i, meshes, forest_mesh,
          fig, tape, rnds, kinds, parts, args, result>>

---------------------------------------------------------------------------
(* Program constants *)

TREE_COUNT_MIN == 20
TREE_COUNT_MAX == 300
PLOT_SIZE_MIN == 50
PLOT_SIZE_MAX == 200
OVERLAP_AMOUNT == 10
VARIANCE == 25
TRUNK_SECTIONS == 5
GROUND_Z == -2

(* Bounds of the model *)

RngResolution == 100
NSeeds == 20
TreeSpan == 1
PlotSpan == 1
MaxOverlap == 12
MaxShift == 1

---------------------------------------------------------------------------
(* Arithmetic and sequence helpers *)

Tenths(n) == 2 * n

Min2(a, b) == IF a < b THEN a ELSE b

Max2(a, b) == IF a > b THEN a ELSE b

RECURSIVE SeqMin(_)
SeqMin(s) == IF Len(s) = 1 THEN s[1] ELSE Min2(s[1], SeqMin(Tail(s)))

RECURSIVE SeqMax(_)
SeqMax(s) == IF Len(s) = 1 THEN s[1] ELSE Max2(s[1], SeqMax(Tail(s)))

Column(vertices, c) == [k \in 1..Len(vertices) |-> vertices[k][c]]

\* x / 10000 rounded to the nearest integer
Rounded(x) == (2 * x + 10000) \div 20000

clip(x, lo, hi) == IF x < lo THEN lo ELSE IF x > hi THEN hi ELSE x

---------------------------------------------------------------------------
(* The random source *)

NextRng(s) == (81 * s + 49) % RngResolution

RECURSIVE Draws(_, _)
Draws(s, n) == IF n <= 0 THEN <<>> ELSE <<s>> \o Draws(NextRng(s), n - 1)

RECURSIVE Advance(_, _)
Advance(s, n) == IF n <= 0 THEN s ELSE Advance(NextRng(s), n - 1)

\* np.random.uniform(lo, hi) for the raw variate u, in steps of a tenth
uniform(u, lo, hi) == lo + 2 * (((hi - lo) * u) \div (2 * RngResolution))

\* np.random.randint(lo, hi): an integer of the half-open range [lo, hi);
\* an empty range raises ValueError and draws nothing
randint(u, lo, hi) ==
    IF lo >= hi THEN "ValueError" ELSE lo + ((hi - lo) * u) \div RngResolution

---------------------------------------------------------------------------
(* Meshes *)

EmptyMesh == [vertices |-> <<>>, faces |-> <<>>, face_colors |-> <<>>]

\* mesh.bounds: <<minimum corner, maximum corner>>
bounds(mesh) ==
    << [c \in 1..3 |-> SeqMin(Column(mesh.vertices, c))],
       [c \in 1..3 |-> SeqMax(Column(mesh.vertices, c))] >>

apply_translation(mesh, t) ==
    [mesh EXCEPT !.vertices =
        [k \in 1..Len(mesh.vertices) |->
            << mesh.vertices[k][1] + t[1],
               mesh.vertices[k][2] + t[2],
               mesh.vertices[k][3] + t[3] >>]]

\* slip: the colour is stored as a single row, not one row per face
set_face_colors_single(mesh, rgba) ==
    [mesh EXCEPT !.face_colors = <<rgba>>]

\* mesh.visual.face_colors = rgba: the one colour is given to every face
set_face_colors(mesh, rgba) ==
    [mesh EXCEPT !.face_colors = [k \in 1..Len(mesh.faces) |-> rgba]]

RingUnit(sections) ==
    CASE sections = 5 ->
            << <<10000, 0>>, <<3090, 9511>>, <<-8090, 5878>>,
               <<-8090, -5878>>, <<3090, -9511>> >>
      [] sections = 6 ->
            << <<10000, 0>>, <<5000, 8660>>, <<-5000, 8660>>,
               <<-10000, 0>>, <<-5000, -8660>>, <<5000, -8660>> >>
      [] sections = 7 ->
            << <<10000, 0>>, <<6235, 7818>>, <<-2225, 9749>>,
               <<-9010, 4339>>, <<-9010, -4339>>, <<-2225, -9749>>,
               <<6235, -7818>> >>

\* ring of a cross-section: sections points at equal angles from the X axis
Ring(radius, sections, z) ==
    [k \in 1..sections |->
        << Rounded(radius * RingUnit(sections)[k][1]),
           Rounded(radius * RingUnit(sections)[k][2]),
           z >>]

\* index (0-based) of ring vertex k (1-based, cyclic) of a ring starting at base
RingIdx(base, k, sections) == base + ((k - 1) % sections)

\* trimesh.creation.cylinder: centred on the origin, Z in [-height/2, height/2]
cylinder(radius, height, sections) ==
    [vertices |-> << <<0, 0, -(height \div 2)>> >>
                  \o Ring(radius, sections, -(height \div 2))
                  \o Ring(radius, sections, height \div 2)
                  \o << <<0, 0, height \div 2>> >>,
     faces |-> [k \in 1..sections |->
                   <<0, RingIdx(1, k + 1, sections), RingIdx(1, k, sections)>>]
               \o [k \in 1..sections |->
                   <<RingIdx(1, k, sections), RingIdx(1, k + 1, sections),
                     RingIdx(1 + sections, k, sections)>>]
               \o [k \in 1..sections |->
                   <<RingIdx(1, k + 1, sections),
                     RingIdx(1 + sections, k + 1, sections),
                     RingIdx(1 + sections, k, sections)>>]
               \o [k \in 1..sections |->
                   <<2 * sections + 1, RingIdx(1 + sections, k, sections),
                     RingIdx(1 + sections, k + 1, sections)>>],
     face_colors |-> [k \in 1..(4 * sections) |-> <<102, 102, 102, 255>>]]

\* trimesh.creation.cone: base disc on Z = 0, apex at Z = height
cone(radius, height, sections) ==
    [vertices |-> << <<0, 0, 0>> >>
                  \o Ring(radius, sections, 0)
                  \o << <<0, 0, height>> >>,
     faces |-> [k \in 1..sections |->
                   <<0, RingIdx(1, k + 1, sections), RingIdx(1, k, sections)>>]
               \o [k \in 1..sections |->
                   <<RingIdx(1, k, sections), RingIdx(1, k + 1, sections),
                     sections + 1>>],
     face_colors |-> [k \in 1..(2 * sections) |-> <<102, 102, 102, 255>>]]

\* the icosahedron subdivided once, on the unit sphere (in 1/10000): its 12
\* vertices, then the 30 edge midpoints pushed out to the sphere
IcoUnit ==
    << <<-5257, 8507, 0>>, <<5257, 8507, 0>>, <<-5257, -8507, 0>>,
       <<5257, -8507, 0>>, <<0, -5257, 8507>>, <<0, 5257, 8507>>,
       <<0, -5257, -8507>>, <<0, 5257, -8507>>, <<8507, 0, -5257>>,
       <<8507, 0, 5257>>, <<-8507, 0, -5257>>, <<-8507, 0, 5257>>,
       <<0, 10000, 0>>, <<-3090, 8090, 5000>>, <<-3090, 8090, -5000>>,
       <<-8090, 5000, -3090>>, <<-8090, 5000, 3090>>, <<3090, 8090, 5000>>,
       <<3090, 8090, -5000>>, <<8090, 5000, -3090>>, <<8090, 5000, 3090>>,
       <<0, -10000, 0>>, <<-3090, -8090, 5000>>, <<-3090, -8090, -5000>>,
       <<-8090, -5000, -3090>>, <<-8090, -5000, 3090>>, <<3090, -8090, 5000>>,
       <<3090, -8090, -5000>>, <<8090, -5000, -3090>>, <<8090, -5000, 3090>>,
       <<0, 0, 10000>>, <<5000, -3090, 8090>>, <<-5000, -3090, 8090>>,
       <<5000, 3090, 8090>>, <<-5000, 3090, 8090>>, <<0, 0, -10000>>,
       <<5000, -3090, -8090>>, <<-5000, -3090, -8090>>, <<5000, 3090, -8090>>,
       <<-5000, 3090, -8090>>, <<10000, 0, 0>>, <<-10000, 0, 0>> >>

IcoFaces ==
    << <<0, 16, 13>>, <<16, 11, 34>>, <<13, 34, 5>>, <<16, 34, 13>>, <<0, 13, 12>>,
       <<13, 5, 17>>, <<12, 17, 1>>, <<13, 17, 12>>, <<0, 12, 14>>, <<12, 1, 18>>,
       <<14, 18, 7>>, <<12, 18, 14>>, <<0, 14, 15>>, <<14, 7, 39>>, <<15, 39, 10>>,
       <<14, 39, 15>>, <<0, 15, 16>>, <<15, 10, 41>>, <<16, 41, 11>>, <<15, 41, 16>>,
       <<1, 17, 20>>, <<17, 5, 33>>, <<20, 33, 9>>, <<17, 33, 20>>, <<5, 34, 30>>,
       <<34, 11, 32>>, <<30, 32, 4>>, <<34, 32, 30>>, <<11, 41, 25>>, <<41, 10, 24>>,
       <<25, 24, 2>>, <<41, 24, 25>>, <<10, 39, 37>>, <<39, 7, 35>>, <<37, 35, 6>>,
       <<39, 35, 37>>, <<7, 18, 38>>, <<18, 1, 19>>, <<38, 19, 8>>, <<18, 19, 38>>,
       <<3, 29, 26>>, <<29, 9, 31>>, <<26, 31, 4>>, <<29, 31, 26>>, <<3, 26, 21>>,
       <<26, 4, 22>>, <<21, 22, 2>>, <<26, 22, 21>>, <<3, 21, 27>>, <<21, 2, 23>>,
       <<27, 23, 6>>, <<21, 23, 27>>, <<3, 27, 28>>, <<27, 6, 36>>, <<28, 36, 8>>,
       <<27, 36, 28>>, <<3, 28, 29>>, <<28, 8, 40>>, <<29, 40, 9>>, <<28, 40, 29>>,
       <<4, 31, 30>>, <<31, 9, 33>>, <<30, 33, 5>>, <<31, 33, 30>>, <<2, 22, 25>>,
       <<22, 4, 32>>, <<25, 32, 11>>, <<22, 32, 25>>, <<6, 23, 37>>, <<23, 2, 24>>,
       <<37, 24, 10>>, <<23, 24, 37>>, <<8, 36, 38>>, <<36, 6, 35>>, <<38, 35, 7>>,
       <<36, 35, 38>>, <<9, 40, 20>>, <<40, 8, 19>>, <<20, 19, 1>>, <<40, 19, 20>> >>

\* trimesh.creation.icosphere(subdivisions=1): 42 vertices, 80 faces, centred
\* on the origin
icosphere(radius) ==
    [vertices |-> [k \in 1..Len(IcoUnit) |->
                      << Rounded(radius * IcoUnit[k][1]),
                         Rounded(radius * IcoUnit[k][2]),
                         Rounded(radius * IcoUnit[k][3]) >>],
     faces |-> IcoFaces,
     face_colors |-> [k \in 1..Len(IcoFaces) |-> <<102, 102, 102, 255>>]]

\* faces of one mesh with every index raised by offset
OffsetFaces(faces, offset) ==
    [k \in 1..Len(faces) |->
        <<faces[k][1] + offset, faces[k][2] + offset, faces[k][3] + offset>>]

\* slip: the faces are appended without raising their indices
RECURSIVE concatenate_no_offset(_)
concatenate_no_offset(ms) ==
    IF Len(ms) = 1 THEN ms[1]
    ELSE LET head == concatenate_no_offset(SubSeq(ms, 1, Len(ms) - 1))
             last == ms[Len(ms)]
         IN  [vertices |-> head.vertices \o last.vertices,
              faces |-> head.faces \o last.faces,
              face_colors |-> head.face_colors \o last.face_colors]

\* trimesh.util.concatenate of a list of one mesh or more: vertices, faces
\* and colours appended in list order
RECURSIVE concatenate(_)
concatenate(ms) ==
    IF Len(ms) = 1 THEN ms[1]
    ELSE LET head == concatenate(SubSeq(ms, 1, Len(ms) - 1))
             last == ms[Len(ms)]
         IN  [vertices |-> head.vertices \o last.vertices,
              faces |-> head.faces
                        \o OffsetFaces(last.faces, Len(head.vertices)),
              face_colors |-> head.face_colors \o last.face_colors]

---------------------------------------------------------------------------
(* Geometry helpers of the program *)

\* np.random.randint(-variance, variance) has an empty range
ColorRaises(variance) == -variance >= variance

\* slip: the offset is drawn from the closed range [-variance, variance]
get_random_color_inclusive(base_rgb, variance, d) ==
    IF -variance >= variance + 1 THEN "ValueError"
    ELSE
    [c \in 1..3 |-> clip(base_rgb[c] + randint(d[c], -variance, variance + 1),
                         0, 255)]
    \o <<255>>

\* d: the three raw variates of the three randint draws, in channel order;
\* the first randint raises ValueError when its range is empty
get_random_color(base_rgb, variance, d) ==
    IF ColorRaises(variance) THEN randint(d[1], -variance, variance)
    ELSE
    [c \in 1..3 |-> clip(base_rgb[c] + randint(d[c], -variance, variance),
                         0, 255)]
    \o <<255>>

\* slip: the overlap is left out of the shift
stack_on_top_no_overlap(bottom_mesh, top_mesh, overlap) ==
    LET bottom_z_max == bounds(bottom_mesh)[2][3]
        top_z_min == bounds(top_mesh)[1][3]
        shift_z == bottom_z_max - top_z_min
    IN  apply_translation(top_mesh, <<0, 0, shift_z>>)

\* slip: the shift is put on the wrong axis as well
stack_on_top_wrong_axis(bottom_mesh, top_mesh, overlap) ==
    LET bottom_z_max == bounds(bottom_mesh)[2][3]
        top_z_min == bounds(top_mesh)[1][3]
        shift_z == (bottom_z_max - overlap) - top_z_min
    IN  apply_translation(top_mesh, <<0, shift_z, shift_z>>)

stack_on_top(bottom_mesh, top_mesh, overlap) ==
    LET bottom_z_max == bounds(bottom_mesh)[2][3]
        top_z_min == bounds(top_mesh)[1][3]
        shift_z == (bottom_z_max - overlap) - top_z_min
    IN  apply_translation(top_mesh, <<0, 0, shift_z>>)

create_trunk(height, radius) ==
    apply_translation(
        set_face_colors(cylinder(radius, height, TRUNK_SECTIONS),
                        <<101, 67, 33, 255>>),
        <<0, 0, height \div 2>>)

---------------------------------------------------------------------------
(* Tree generators.  pos is the ground position <<x, y, 0>>; d is the list  *)
(* of raw variates the call consumes, in the order of its draws.            *)

\* the locals trunk and crown of create_roundy_tree when it merges them
roundy_parts(d) ==
    LET h_trunk == uniform(d[1], Tenths(30), Tenths(60))
        r_crown == uniform(d[2], Tenths(25), Tenths(45))
        trunk == create_trunk(h_trunk, Tenths(7))
        crown == set_face_colors(
                     icosphere(r_crown),
                     get_random_color(<<124, 204, 57>>, VARIANCE,
                                      SubSeq(d, 3, 5)))
    IN  <<trunk, stack_on_top(trunk, crown, OVERLAP_AMOUNT)>>

create_roundy_tree(pos, d) ==
    apply_translation(concatenate(roundy_parts(d)), pos)

\* the locals trunk and crown of create_pointy_tree when it merges them
pointy_parts(d) ==
    LET h_trunk == uniform(d[1], Tenths(20), Tenths(40))
        h_crown == uniform(d[2], Tenths(60), Tenths(100))
        r_crown == uniform(d[3], Tenths(25), Tenths(40))
        trunk == create_trunk(h_trunk, Tenths(6))
        crown == set_face_colors(
                     cone(r_crown, h_crown, 6),
                     get_random_color(<<34, 139, 34>>, VARIANCE,
                                      SubSeq(d, 4, 6)))
    IN  <<trunk, stack_on_top(trunk, crown, OVERLAP_AMOUNT)>>

create_pointy_tree(pos, d) ==
    apply_translation(concatenate(pointy_parts(d)), pos)

\* slip: cone 2 is stacked on cone 1 as it was before cone 1 was moved
StackedChainBroken(trunk, c1, c2) ==
    <<trunk, stack_on_top(trunk, c1, OVERLAP_AMOUNT),
      stack_on_top(c1, c2, OVERLAP_AMOUNT)>>

\* cone 2 is stacked on cone 1 as stack_on_top left it (moved in place)
StackedChain(trunk, c1, c2) ==
    LET c1_stacked == stack_on_top(trunk, c1, OVERLAP_AMOUNT)
    IN  <<trunk, c1_stacked, stack_on_top(c1_stacked, c2, OVERLAP_AMOUNT)>>

\* the locals trunk, c1 and c2 of create_stacked_tree when it merges them
stacked_parts(d) ==
    LET h_trunk == uniform(d[1], Tenths(20), Tenths(30))
        trunk == create_trunk(h_trunk, Tenths(7))
        h1 == uniform(d[2], Tenths(30), Tenths(50))
        c1 == set_face_colors(
                  cone(uniform(d[3], Tenths(30), Tenths(40)), h1, 7),
                  get_random_color(<<46, 139, 87>>, VARIANCE,
                                   SubSeq(d, 4, 6)))
        c2 == set_face_colors(
                  cone(Tenths(20), uniform(d[7], Tenths(20), Tenths(40)), 7),
                  get_random_color(<<143, 188, 143>>, VARIANCE,
                                   SubSeq(d, 8, 10)))
    IN  StackedChain(trunk, c1, c2)

create_stacked_tree(pos, d) ==
    apply_translation(concatenate(stacked_parts(d)), pos)

\* slip: the thresholds are taken inclusive
ArchetypeInclusive(rnd) ==
    IF 100 * rnd <= 40 * RngResolution THEN "roundy"
    ELSE IF 100 * rnd <= 75 * RngResolution THEN "pointy"
    ELSE "stacked"

\* the branch of the generation loop taken for the archetype draw rnd
Archetype(rnd) ==
    IF 100 * rnd < 40 * RngResolution THEN "roundy"
    ELSE IF 100 * rnd < 75 * RngResolution THEN "pointy"
    ELSE "stacked"

\* raw variates one create_*_tree call consumes
TreeDrawCount(kind) ==
    CASE kind = "roundy" -> 5
      [] kind = "pointy" -> 6
      [] kind = "stacked" -> 10

TreeParts(kind, d) ==
    CASE kind = "roundy" -> roundy_parts(d)
      [] kind = "pointy" -> pointy_parts(d)
      [] kind = "stacked" -> stacked_parts(d)

CreateTree(kind, pos, d) ==
    CASE kind = "roundy" -> create_roundy_tree(pos, d)
      [] kind = "pointy" -> create_pointy_tree(pos, d)
      [] kind = "stacked" -> create_stacked_tree(pos, d)

---------------------------------------------------------------------------
(* Main logic *)

\* st.slider(label, lo, hi, default): any integer of lo..hi
slider(lo, hi) == lo..hi

\* np.random.uniform(-plot_size/2, plot_size/2, (n, 2)), filled row by row
SamplePositionsOf(n, size, d) ==
    [k \in 1..n |->
        << uniform(d[2 * k - 1], -(size * 10), size * 10),
           uniform(d[2 * k], -(size * 10), size * 10) >>]

\* the two Mesh3d traces handed to the viewer
Figure(mesh, size) ==
    [trees |-> [vertices |-> mesh.vertices,
                faces |-> mesh.faces,
                facecolor |-> [k \in 1..Len(mesh.face_colors) |->
                                  SubSeq(mesh.face_colors[k], 1, 3)]],
     ground |-> [vertices |->
                    << <<-((size * 200) \div 18), -((size * 200) \div 18),
                         GROUND_Z>>,
                       <<(size * 200) \div 18, -((size * 200) \div 18),
                         GROUND_Z>>,
                       <<(size * 200) \div 18, (size * 200) \div 18,
                         GROUND_Z>>,
                       <<-((size * 200) \div 18), (size * 200) \div 18,
                         GROUND_Z>> >>,
                 faces |-> << <<0, 1, 2>>, <<0, 2, 3>> >>,
                 color |-> <<160, 200, 120>>]]

NoFigure == [trees |-> [vertices |-> <<>>, faces |-> <<>>,
                        facecolor |-> <<>>],
             ground |-> [vertices |-> <<>>, faces |-> <<>>,
                         color |-> <<>>]]

NoArgs == [op |-> "none"]

\* the state before the spinner block, for a configuration and a generator state
Start(n, size, seed) ==
    /\ pc = "positions"
    /\ n_trees = n
    /\ plot_size = size
    /\ rng = seed
    /\ positions = <<>>
    /\ i = 0
    /\ meshes = <<>>
    /\ forest_mesh = EmptyMesh
    /\ fig = NoFigure
    /\ tape = <<>>
    /\ rnds = <<>>
    /\ kinds = <<>>
    /\ parts = <<>>
    /\ args = NoArgs
    /\ result = NoArgs

\* the configuration comes from the two sliders of the sidebar
Init ==
    \E n \in slider(TREE_COUNT_MIN, Min2(TREE_COUNT_MAX, TREE_COUNT_MIN + TreeSpan)),
       size \in slider(PLOT_SIZE_MIN, Min2(PLOT_SIZE_MAX, PLOT_SIZE_MIN + PlotSpan)),
       seed \in 0..(NSeeds - 1) :
        Start(n, size, seed)

PositionDraws(n) == 2 * n

SamplePositions ==
    /\ pc = "positions"
    /\ LET d == Draws(rng, PositionDraws(n_trees))
       IN  /\ positions' = SamplePositionsOf(n_trees, plot_size, d)
           /\ tape' = tape \o d
    /\ rng' = Advance(rng, PositionDraws(n_trees))
    /\ meshes' = <<>>
    /\ i' = 0
    /\ pc' = "loop"
    /\ UNCHANGED <<n_trees, plot_size, forest_mesh, fig, rnds, kinds, parts,
                   args, result>>

\* range(n_trees) still has an index to give
LoopContinues == i < n_trees

\* one iteration of the loop, in the branch that builds kind
LoopBody(kind) ==
    /\ pc = "loop"
    /\ LoopContinues
    /\ LET pos == <<positions[i + 1][1], positions[i + 1][2], 0>>
           rnd == rng
           d == Draws(NextRng(rng), TreeDrawCount(kind))
       IN  /\ meshes' = Append(meshes, CreateTree(kind, pos, d))
           /\ parts' = TreeParts(kind, d)
           /\ rnds' = Append(rnds, rnd)
           /\ tape' = tape \o <<rnd>> \o d
    /\ kinds' = Append(kinds, kind)
    /\ rng' = Advance(rng, 1 + TreeDrawCount(kind))
    /\ i' = i + 1
    /\ UNCHANGED <<pc, n_trees, plot_size, positions, forest_mesh, fig, args,
                   result>>

LoopRoundy ==
    /\ Archetype(rng) = "roundy"
    /\ LoopBody("roundy")

LoopPointy ==
    /\ Archetype(rng) = "pointy"
    /\ LoopBody("pointy")

LoopStacked ==
    /\ Archetype(rng) = "stacked"
    /\ LoopBody("stacked")

MergeForest ==
    /\ pc = "loop"
    /\ ~LoopContinues
    /\ forest_mesh' = concatenate(meshes)
    /\ pc' = "visualize"
    /\ UNCHANGED <<n_trees, plot_size, rng, positions, i, meshes, fig, tape,
                   rnds, kinds, parts, args, result>>

Visualize ==
    /\ pc = "visualize"
    /\ fig' = Figure(forest_mesh, plot_size)
    /\ pc' = "done"
    /\ UNCHANGED <<n_trees, plot_size, rng, positions, i, meshes, forest_mesh,
                   tape, rnds, kinds, parts, args, result>>

Next ==
    \/ SamplePositions
    \/ LoopRoundy
    \/ LoopPointy
    \/ LoopStacked
    \/ MergeForest
    \/ Visualize

Spec == Init /\ [][Next]_vars

---------------------------------------------------------------------------
(* The helpers called on their own *)

\* the state of a helper call: nothing of the generation has run, the
\* generator is in state seed
Idle(call, seed) ==
    /\ pc = "call"
    /\ n_trees = 0
    /\ plot_size = 0
    /\ rng = seed
    /\ positions = <<>>
    /\ i = 0
    /\ meshes = <<>>
    /\ forest_mesh = EmptyMesh
    /\ fig = NoFigure
    /\ tape = <<>>
    /\ rnds = <<>>
    /\ kinds = <<>>
    /\ parts = <<>>
    /\ args = call
    /\ result = NoArgs

\* solids of each kind and size, anywhere in space
Solids ==
    { apply_translation(m, <<dx, 0 - dx, 37 * dz>>) :
        m \in { create_trunk(Tenths(30), Tenths(7)),
                icosphere(Tenths(25)),
                icosphere(Tenths(45)),
                cone(Tenths(40), Tenths(60), 6),
                set_face_colors(cone(Tenths(20), Tenths(21), 7),
                                <<143, 188, 143, 255>>) },
        dx \in {0, 11},
        dz \in (0 - MaxShift)..MaxShift }

\* a call of stack_on_top: bottom_mesh and top_mesh are the two arguments as
\* they are now, entry keeps them as they were when the call was made, and
\* same_object tells that the two arguments are one object
StackArgs(bottom, top, overlap, same) ==
    [op |-> "stack_on_top", bottom_mesh |-> bottom, top_mesh |-> top,
     overlap |-> overlap, same_object |-> same,
     entry |-> [bottom_mesh |-> bottom, top_mesh |-> top]]

\* the arguments are references: two meshes (equal or not), or one mesh
\* given as both
InitStack ==
    \/ \E bottom \in Solids, top \in Solids, overlap \in 0..MaxOverlap :
        Idle(StackArgs(bottom, top, overlap, FALSE), 0)
    \/ \E solid \in Solids, overlap \in 0..MaxOverlap :
        Idle(StackArgs(solid, solid, overlap, TRUE), 0)

\* top_mesh is moved in place and returned; bottom_mesh is only read, and
\* has moved with top_mesh when it is the same object
StackCall ==
    /\ pc = "call"
    /\ args.op = "stack_on_top"
    /\ LET moved == stack_on_top(args.bottom_mesh, args.top_mesh,
                                 args.overlap)
       IN  /\ result' = moved
           /\ args' = [args EXCEPT
                          !.top_mesh = moved,
                          !.bottom_mesh = IF args.same_object THEN moved
                                          ELSE @]
    /\ pc' = "returned"
    /\ UNCHANGED <<n_trees, plot_size, rng, positions, i, meshes, forest_mesh,
                   fig, tape, rnds, kinds, parts>>

SpecStack == InitStack /\ [][StackCall]_vars

BaseChannels == {0, 24, 128, 255}

InitColor ==
    \E r \in BaseChannels, g \in BaseChannels, b \in BaseChannels,
       variance \in {0 - VARIANCE, 0, 1, VARIANCE, 2 * VARIANCE},
       seed \in 0..(RngResolution - 1) :
        Idle([op |-> "get_random_color", base_rgb |-> <<r, g, b>>,
              variance |-> variance], seed)

\* the call takes its three randint draws from the global generator; when
\* the first randint raises, nothing is drawn and nothing is returned
ColorCall ==
    /\ pc = "call"
    /\ args.op = "get_random_color"
    /\ result' = get_random_color(args.base_rgb, args.variance,
                                  Draws(rng, 3))
    /\ IF ColorRaises(args.variance)
       THEN /\ pc' = "raised"
            /\ UNCHANGED <<rng, tape>>
       ELSE /\ pc' = "returned"
            /\ rng' = Advance(rng, 3)
            /\ tape' = tape \o Draws(rng, 3)
    /\ UNCHANGED <<n_trees, plot_size, positions, i, meshes, forest_mesh,
                   fig, rnds, kinds, parts, args>>

SpecColor == InitColor /\ [][ColorCall]_vars

---------------------------------------------------------------------------
(* Properties of stack_on_top (SpecStack) *)

StackReturned == pc = "returned" /\ args.op = "stack_on_top"

ZValues(mesh) == {mesh.vertices[k][3] : k \in 1..Len(mesh.vertices)}

LowestZ(mesh) == CHOOSE z \in ZValues(mesh) : \A w \in ZValues(mesh) : z <= w

HighestZ(mesh) == CHOOSE z \in ZValues(mesh) : \A w \in ZValues(mesh) : z >= w

\* the call was made with two solids, bottom and top
TwoSolids == ~args.same_object

\* C1: for every bottom solid, every top solid and every overlap >= 0,
\* after stack_on_top(bottom, top, overlap) the lowest Z of top is the
\* highest Z of bottom minus overlap (flush for overlap = 0), wherever
\* either solid was before the call.  top is the object returned; bottom is
\* where it was.
C1_GapElimination ==
    (StackReturned /\ TwoSolids) =>
        /\ result = args.top_mesh
        /\ args.bottom_mesh = args.entry.bottom_mesh
        /\ LowestZ(args.top_mesh) = HighestZ(args.bottom_mesh) - args.overlap
        /\ (args.overlap = 0 =>
                LowestZ(args.top_mesh) = HighestZ(args.bottom_mesh))

\* a call that had to lower a top solid lying above the bottom one, itself
\* off the ground, has returned
C1_Witness ==
    /\ StackReturned
    /\ TwoSolids
    /\ LowestZ(args.top_mesh) = HighestZ(args.bottom_mesh) - args.overlap
    /\ args.overlap > 0
    /\ LowestZ(args.entry.top_mesh) > HighestZ(args.bottom_mesh)
    /\ LowestZ(args.bottom_mesh) # 0

\* C2: stack_on_top changes no X and no Y of top; every vertex of top is
\* moved in Z by the one amount shift_z.
C2_XYPreserved ==
    StackReturned =>
        /\ Len(args.top_mesh.vertices) = Len(args.entry.top_mesh.vertices)
        /\ \A k \in 1..Len(args.top_mesh.vertices) :
            /\ args.top_mesh.vertices[k][1]
                 = args.entry.top_mesh.vertices[k][1]
            /\ args.top_mesh.vertices[k][2]
                 = args.entry.top_mesh.vertices[k][2]
            /\ args.top_mesh.vertices[k][3]
                 - args.entry.top_mesh.vertices[k][3]
                 = args.top_mesh.vertices[1][3]
                   - args.entry.top_mesh.vertices[1][3]

\* a call that moved a top solid standing off the Z axis has returned
C2_Witness ==
    /\ StackReturned
    /\ args.top_mesh.vertices[1][3] # args.entry.top_mesh.vertices[1][3]
    /\ args.top_mesh.vertices[1][1] # 0
    /\ args.top_mesh.vertices[1][1] = args.entry.top_mesh.vertices[1][1]

---------------------------------------------------------------------------
(* Properties of get_random_color (SpecColor) *)

ColorReturned == pc = "returned" /\ args.op = "get_random_color"

\* the call has ended, with a colour or with an exception
ColorEnded == pc \in {"returned", "raised"} /\ args.op = "get_random_color"

\* the half-open range [-variance, variance) of the offset has a member
OffsetExists == \E offset \in (0 - args.variance)..(args.variance - 1) : TRUE

\* C9: get_random_color(base_rgb, variance) returns four channels; each of
\* R, G, B is the base channel plus an integer offset of
\* [-variance, variance) clamped to [0, 255], alpha is 255, and every
\* channel lies in [0, 255], for every base colour of [0, 255]^3 and every
\* variance that has such an offset.
C9_ColorEnvelope ==
    (ColorEnded /\ OffsetExists) =>
        /\ ColorReturned
        /\ Len(result) = 4
        /\ result[4] = 255
        /\ \A c \in 1..4 : result[c] \in 0..255
        /\ \A c \in 1..3 :
            \E offset \in (0 - args.variance)..(args.variance - 1) :
                result[c] = IF args.base_rgb[c] + offset < 0 THEN 0
                            ELSE IF args.base_rgb[c] + offset > 255 THEN 255
                            ELSE args.base_rgb[c] + offset

\* a colour was returned with one channel clamped at 0, one clamped at 255
\* and one moved by the largest offset, variance - 1
C9_Witness ==
    /\ ColorReturned
    /\ args.variance = VARIANCE
    /\ \E c \in 1..3 : args.base_rgb[c] = 0 /\ result[c] = 0
                       /\ 2 * tape[c] < RngResolution - 4
    /\ \E c \in 1..3 : args.base_rgb[c] = 255 /\ result[c] = 255
                       /\ 2 * tape[c] > RngResolution + 4
    /\ \E c \in 1..3 : result[c] = args.base_rgb[c] + VARIANCE - 1

---------------------------------------------------------------------------
(* Properties of the generation (Spec) *)

Merged == pc \in {"visualize", "done"}

\* ground position of tree t (1-based), as the loop builds it
PosOf(t) == <<positions[t][1], positions[t][2], 0>>

\* vertex counts of the primitives an archetype merges, in merge order
PartSizes(kind) ==
    CASE kind = "roundy" ->
            << Len(cylinder(2, 2, 5).vertices), Len(icosphere(2).vertices) >>
      [] kind = "pointy" ->
            << Len(cylinder(2, 2, 5).vertices), Len(cone(2, 2, 6).vertices) >>
      [] kind = "stacked" ->
            << Len(cylinder(2, 2, 5).vertices), Len(cone(2, 2, 7).vertices),
               Len(cone(2, 2, 7).vertices) >>

RECURSIVE SumTo(_, _)
SumTo(sizes, p) == IF p = 0 THEN 0 ELSE sizes[p] + SumTo(sizes, p - 1)

RECURSIVE VertexTotal(_, _)
VertexTotal(ms, t) ==
    IF t = 0 THEN 0 ELSE Len(ms[t].vertices) + VertexTotal(ms, t - 1)

RECURSIVE FaceTotal(_, _)
FaceTotal(ms, t) ==
    IF t = 0 THEN 0 ELSE Len(ms[t].faces) + FaceTotal(ms, t - 1)

IndexValid(mesh) ==
    \A k \in 1..Len(mesh.faces) : \A c \in 1..3 :
        /\ mesh.faces[k][c] >= 0
        /\ mesh.faces[k][c] < Len(mesh.vertices)

\* merged is the merge of the list ms, moved by shift: every triangle of
\* every solid is in merged, its indices raised by the vertex count of the
\* solids before it, and it refers to the vertices it referred to before
MergeFaithful(merged, ms, shift) ==
    /\ Len(merged.vertices) = VertexTotal(ms, Len(ms))
    /\ Len(merged.faces) = FaceTotal(ms, Len(ms))
    /\ \A t \in 1..Len(ms) :
        LET voff == VertexTotal(ms, t - 1)
            foff == FaceTotal(ms, t - 1)
        IN  \A f \in 1..Len(ms[t].faces) : \A c \in 1..3 :
                LET before == ms[t].faces[f][c]
                    after == merged.faces[foff + f][c]
                IN  /\ after = before + voff
                    /\ \A a \in 1..3 :
                        merged.vertices[after + 1][a]
                            = ms[t].vertices[before + 1][a] + shift[a]

\* C4: in every merge (the primitives of a tree into the tree, the trees
\* into the forest) every triangle index of the merged array is >= 0 and
\* below the merged vertex count, and every triangle refers to the vertices
\* it referred to before, its indices raised by the vertex count of the
\* solids before it in the merge order.
C4_MergeIndexValidity ==
    /\ \A t \in 1..Len(meshes) : IndexValid(meshes[t])
    /\ (Len(meshes) > 0 =>
            MergeFaithful(meshes[Len(meshes)], parts, PosOf(Len(meshes))))
    /\ (Merged =>
            /\ IndexValid(forest_mesh)
            /\ MergeFaithful(forest_mesh, meshes, <<0, 0, 0>>))

\* the forest of all n_trees trees is merged, the last tree a three-part one
C4_Witness ==
    /\ pc = "done"
    /\ Len(meshes) = n_trees
    /\ Len(parts) = 3
    /\ Len(forest_mesh.faces) > Len(meshes[1].faces)
    /\ forest_mesh.faces[Len(forest_mesh.faces)][1] >= Len(meshes[1].vertices)

ColorsMatch(mesh) == Len(mesh.face_colors) = Len(mesh.faces)

\* C5: at every stage (each primitive once coloured, each merged tree, the
\* merged forest, the trace handed to the viewer) there are as many
\* per-triangle colours as triangles.
C5_ColorCount ==
    /\ \A p \in 1..Len(parts) : ColorsMatch(parts[p])
    /\ \A t \in 1..Len(meshes) : ColorsMatch(meshes[t])
    /\ ColorsMatch(forest_mesh)
    /\ Len(fig.trees.facecolor) = Len(fig.trees.faces)

\* the viewer has received the coloured triangles of a whole forest
C5_Witness ==
    /\ pc = "done"
    /\ Len(fig.trees.faces) > 0
    /\ Len(fig.trees.facecolor) = FaceTotal(meshes, n_trees)
    /\ Len(parts) > 0

\* C6: every tree index builds exactly one archetype from one draw r:
\* Roundy when r < 0.4, Pointy when 0.4 <= r < 0.75, Stacked otherwise;
\* after the loop the list holds n_trees trees in tree-index order.
C6_ArchetypeSelection ==
    /\ (pc # "positions" =>
            /\ i <= n_trees
            /\ Len(meshes) = i
            /\ Len(kinds) = i
            /\ Len(rnds) = i)
    /\ \A t \in 1..Len(kinds) :
        /\ rnds[t] \in 0..(RngResolution - 1)
        /\ (kinds[t] = "roundy") = (100 * rnds[t] < 40 * RngResolution)
        /\ (kinds[t] = "pointy") = (/\ 100 * rnds[t] >= 40 * RngResolution
                                    /\ 100 * rnds[t] < 75 * RngResolution)
        /\ (kinds[t] = "stacked") = (100 * rnds[t] >= 75 * RngResolution)
        /\ Len(meshes[t].vertices)
             = SumTo(PartSizes(kinds[t]), Len(PartSizes(kinds[t])))
        /\ meshes[t].vertices[1] = PosOf(t)
    /\ (Merged => Len(meshes) = n_trees)

\* a finished loop that built all three archetypes and drew r = 0.4 and
\* r = 0.75 exactly
C6_Witness ==
    /\ pc = "done"
    /\ Len(meshes) = n_trees
    /\ \E t \in 1..Len(kinds) :
        100 * rnds[t] = 40 * RngResolution /\ kinds[t] = "pointy"
    /\ \E t \in 1..Len(kinds) :
        100 * rnds[t] = 75 * RngResolution /\ kinds[t] = "stacked"
    /\ \E t \in 1..Len(kinds) : kinds[t] = "roundy"
    /\ \E t \in 1..Len(kinds) : kinds[t] = "stacked"

\* Z values of primitive p of tree t, cut out of the merged tree
PartZ(t, p) ==
    LET sizes == PartSizes(kinds[t])
    IN  {meshes[t].vertices[k][3] :
            k \in (SumTo(sizes, p - 1) + 1)..SumTo(sizes, p)}

SetMin(zs) == CHOOSE z \in zs : \A w \in zs : z <= w

SetMax(zs) == CHOOSE z \in zs : \A w \in zs : z >= w

\* C10: in every finished tree the trunk's base is at world Z = 0 and each
\* crown's lowest Z is the highest Z of the solid beneath it minus 0.5; in a
\* Stacked tree cone 2 sits 0.5 below the top of cone 1 as stacked on the
\* trunk.
C10_ChainAfterTranslation ==
    \A t \in 1..Len(meshes) :
        /\ SetMin(PartZ(t, 1)) = 0
        /\ \A p \in 2..Len(PartSizes(kinds[t])) :
            SetMin(PartZ(t, p)) = SetMax(PartZ(t, p - 1)) - Tenths(5)

\* a Stacked tree is finished: cone 1 starts 0.5 below the trunk's top and
\* cone 2 well above it
C10_Witness ==
    \E t \in 1..Len(meshes) :
        /\ kinds[t] = "stacked"
        /\ SetMin(PartZ(t, 2)) = SetMax(PartZ(t, 1)) - Tenths(5)
        /\ SetMin(PartZ(t, 3)) > SetMax(PartZ(t, 1)) + Tenths(20)
        /\ positions[t] # <<0, 0>>

=============================================================================
